---------------------------- MODULE Spec2Model ----------------------------
(***************************************************************************)
(* Model of VoyageAI/data_pipeline.py: the season-range derivation, the    *)
(* historical-year shift, the trend-score normalisation and the sequential *)
(* collection loop of Dataset.run_optimized_data_collection.               *)
(*                                                                         *)
(* Dates are the program's "YYYY-MM-DD" strings, kept as sequences of      *)
(* one-character strings so that str.replace is modelled by what it does.  *)
(* Python dicts are insertion ordered: a calendar is a sequence of         *)
(* <<season, date>> pairs.  Floats are exact rationals <<num, den>>.       *)
(*                                                                         *)
(* Spec       the collection loop, one action per collaborator outcome     *)
(* SpecRanges get_seasonal_ranges applied to a calendar                    *)
(* SpecTrend  process_regional_trend applied to an interest_by_region list *)
(***************************************************************************)
EXTENDS Integers, Sequences, FiniteSets, TLC

VARIABLES
    \* ---- collection loop (run_optimized_data_collection) ----
    countries_details,  \* keys of self.countries_details, in order
    nregions,           \* how many entries of each Regions list are configured
    max_failures,       \* the failure ceiling
    target,             \* the row-count target
    pc,                 \* position in the nested loops
    ci, ri, si, ai,     \* cursors: country, region, season, activity
    failed_attempts,    \* the failure counter
    all_data,           \* the accumulated rows
    weather_data,       \* aggregate of the current (region, season)
    geoLog,             \* calls made to collect_coordinates
    weatherLog,         \* calls made to collect_weather_data
    trendsLog,          \* calls made to serpapi_search via get_country_trends
    stopReason,         \* which return statement ended the run
    \* ---- pure functions ----
    fpc,                \* "idle" | "input" | "done"
    country_seasons,    \* argument of get_seasonal_ranges
    seasonal_ranges,    \* its result
    interest_data,      \* trend_data["interest_by_region"]
    trend_score         \* result of process_regional_trend

loopVars == <<countries_details, nregions, max_failures, target, pc, ci, ri, si, ai,
              failed_attempts, all_data, weather_data, geoLog, weatherLog,
              trendsLog, stopReason>>
fnVars == <<fpc, country_seasons, seasonal_ranges, interest_data, trend_score>>
vars == <<loopVars, fnVars>>

-----------------------------------------------------------------------------
(* Bounds of the model *)

MaxCeiling == 4      \* failure ceilings 1..MaxCeiling stand for max_failures = 50
MaxTarget == 3       \* targets 1..MaxTarget stand for the target of 1000 rows
MaxSeasons == 3      \* longest generated calendar given to get_seasonal_ranges
MaxEntries == 3      \* longest interest_by_region list

-----------------------------------------------------------------------------
(* Strings and dates *)

Digits == <<"0", "1", "2", "3", "4", "5", "6", "7", "8", "9">>

DigitVal(c) == CHOOSE n \in 0..9 : Digits[n + 1] = c

TwoDigits(n) == <<Digits[(n \div 10) + 1], Digits[(n % 10) + 1]>>

\* the string "YYYY-MM-DD"
Date(y, m, d) == TwoDigits(y \div 100) \o TwoDigits(y % 100) \o <<"-">>
                 \o TwoDigits(m) \o <<"-">> \o TwoDigits(d)

Year(s) == 1000 * DigitVal(s[1]) + 100 * DigitVal(s[2])
           + 10 * DigitVal(s[3]) + DigitVal(s[4])
Month(s) == 10 * DigitVal(s[6]) + DigitVal(s[7])
Day(s) == 10 * DigitVal(s[9]) + DigitVal(s[10])

\* chronological order of two date strings
Before(a, b) ==
    \/ Year(a) < Year(b)
    \/ Year(a) = Year(b) /\ Month(a) < Month(b)
    \/ Year(a) = Year(b) /\ Month(a) = Month(b) /\ Day(a) < Day(b)

\* b is the calendar date a, n years later
YearsLater(a, b, n) ==
    Year(b) = Year(a) + n /\ Month(b) = Month(a) /\ Day(b) = Day(a)

\* Python str.replace(old, new): every non-overlapping occurrence, left to right
RECURSIVE Replace(_, _, _)
Replace(s, old, new) ==
    IF Len(s) < Len(old) THEN s
    ELSE IF SubSeq(s, 1, Len(old)) = old
         THEN new \o Replace(SubSeq(s, Len(old) + 1, Len(s)), old, new)
         ELSE <<Head(s)>> \o Replace(Tail(s), old, new)

Y2023 == <<"2", "0", "2", "3">>
Y2024 == <<"2", "0", "2", "4">>
Y2025 == <<"2", "0", "2", "5">>

-----------------------------------------------------------------------------
(* Configuration tables *)

FourSeasons == <<<<"spring", Date(2024, 3, 1)>>, <<"summer", Date(2024, 6, 1)>>,
                 <<"fall", Date(2024, 9, 1)>>, <<"winter", Date(2024, 12, 1)>>>>

Country_details ==
    <<<<"France", FourSeasons>>, <<"Spain", FourSeasons>>,
      <<"Italy", FourSeasons>>, <<"United Kingdom", FourSeasons>>,
      <<"Japan", FourSeasons>>, <<"United States", FourSeasons>>,
      <<"Canada", FourSeasons>>, <<"Turkey", FourSeasons>>,
      <<"Australia", <<<<"spring", Date(2024, 9, 1)>>, <<"summer", Date(2024, 12, 1)>>,
                       <<"fall", Date(2024, 3, 1)>>, <<"winter", Date(2024, 6, 1)>>>>>>,
      <<"Thailand", <<<<"dry", Date(2024, 11, 1)>>, <<"hot", Date(2024, 3, 1)>>,
                      <<"wet", Date(2024, 6, 1)>>>>>>,
      <<"Brazil", <<<<"dry", Date(2024, 5, 1)>>, <<"wet", Date(2024, 10, 1)>>>>>>,
      <<"Mexico", <<<<"dry", Date(2024, 11, 1)>>, <<"wet", Date(2024, 5, 1)>>>>>>,
      <<"Egypt", <<<<"winter", Date(2024, 12, 1)>>, <<"summer", Date(2024, 6, 1)>>>>>>,
      <<"Kenya", <<<<"dry", Date(2024, 6, 1)>>, <<"wet", Date(2024, 3, 1)>>>>>>,
      <<"Malaysia", <<<<"dry", Date(2024, 5, 1)>>, <<"wet", Date(2024, 11, 1)>>>>>>>>

Countries == {Country_details[i][1] : i \in DOMAIN Country_details}

\* self.countries_details[country]
Calendar(country) ==
    Country_details[CHOOSE i \in DOMAIN Country_details :
                        Country_details[i][1] = country][2]

FourDurations == <<<<"spring", 92>>, <<"summer", 92>>, <<"fall", 91>>, <<"winter", 90>>>>

SEASON_DURATIONS ==
    <<<<"France", FourDurations>>, <<"Spain", FourDurations>>,
      <<"Italy", FourDurations>>, <<"United Kingdom", FourDurations>>,
      <<"Japan", FourDurations>>, <<"United States", FourDurations>>,
      <<"Canada", FourDurations>>, <<"Turkey", FourDurations>>,
      <<"Australia", FourDurations>>,
      <<"Thailand", <<<<"dry", 182>>, <<"hot", 91>>, <<"wet", 92>>>>>>,
      <<"Brazil", <<<<"dry", 153>>, <<"wet", 212>>>>>>,
      <<"Mexico", <<<<"dry", 182>>, <<"wet", 183>>>>>>,
      <<"Egypt", <<<<"winter", 182>>, <<"summer", 183>>>>>>,
      <<"Kenya", <<<<"dry", 182>>, <<"wet", 183>>>>>>,
      <<"Malaysia", <<<<"dry", 183>>, <<"wet", 182>>>>>>>>

\* dict.get(key, default) on a sequence of <<key, value>> pairs
DictGet(dict, key, default) ==
    IF \E i \in DOMAIN dict : dict[i][1] = key
    THEN dict[CHOOSE i \in DOMAIN dict : dict[i][1] = key][2]
    ELSE default

\* SEASON_DURATIONS.get(country, {}).get(season, 90)
Duration(country, season) ==
    DictGet(DictGet(SEASON_DURATIONS, country, <<>>), season, 90)


RegionTable ==
    <<<<"Thailand", <<"Bangkok", "Phuket">>>>,
      <<"Brazil", <<"Rio de Janeiro", "Sao Paulo">>>>,
      <<"Mexico", <<"Ciudad de Mexico", "Jalisco">>>>>>

Geo == <<<<"Thailand", "TH">>, <<"Brazil", "BR">>, <<"Mexico", "MX">>>>

activities == <<"hiking", "museum", "beach">>

\* Regions.get(country, [])
Regions(country) == SubSeq(DictGet(RegionTable, country, <<>>), 1, nregions)

-----------------------------------------------------------------------------
(* get_seasonal_ranges *)

\* EndDate without the year advance of the wrapped date
EndDate_NoWrap(seasons, i) ==
    IF i < Len(seasons) THEN seasons[i + 1][2] ELSE seasons[1][2]

\* the end date of the season at position i (1-based) of the calendar
EndDate(seasons, i) ==
    IF i < Len(seasons)
    THEN seasons[i + 1][2]
    ELSE Replace(seasons[1][2], Y2024, Y2025)

\* the resulting dict, in insertion order: season -> {start, end}
get_seasonal_ranges(seasons) ==
    [i \in 1..Len(seasons) |->
        <<seasons[i][1], [start |-> seasons[i][2], end |-> EndDate(seasons, i)]>>]

-----------------------------------------------------------------------------
(* get_country_trends: the date range of the query *)

\* start_date / end_date of the trends query for one season range
ShiftedDates(season_dates) ==
    [start |-> Replace(season_dates.start, Y2024, Y2023),
     end |-> Replace(season_dates.end, Y2024, Y2023)]

\* params["date"] = f"{start_date} {end_date}"
TrendsDateParam(season_dates) ==
    ShiftedDates(season_dates).start \o <<" ">> \o ShiftedDates(season_dates).end

\* the two dates of a "start end" parameter
ParamStart(date) == SubSeq(date, 1, 10)
ParamEnd(date) == SubSeq(date, 12, 21)

-----------------------------------------------------------------------------
(* process_regional_trend *)

Baseline == <<1, 10>>    \* 0.1

\* region.get("extracted_value", 0)
ExtractedValue(region) ==
    IF "extracted_value" \in DOMAIN region THEN region.extracted_value ELSE 0

\* region_scores: the positive values, in input order
RECURSIVE RegionScores(_)
RegionScores(data) ==
    IF data = <<>> THEN <<>>
    ELSE IF ExtractedValue(Head(data)) > 0
         THEN <<ExtractedValue(Head(data))>> \o RegionScores(Tail(data))
         ELSE RegionScores(Tail(data))

RECURSIVE Sum(_)
Sum(scores) == IF scores = <<>> THEN 0 ELSE Head(scores) + Sum(Tail(scores))

\* Normalized without the clamp to 1.0
Normalized_NoClamp(region_scores) ==
    <<Sum(region_scores), 100 * Len(region_scores)>>

\* min(1.0, np.mean(region_scores) / 100) as an exact fraction
Normalized(region_scores) ==
    IF Sum(region_scores) >= 100 * Len(region_scores)
    THEN <<1, 1>>
    ELSE <<Sum(region_scores), 100 * Len(region_scores)>>

process_regional_trend(data) ==
    IF data = <<>> THEN Baseline
    ELSE IF RegionScores(data) = <<>> THEN Baseline
    ELSE Normalized(RegionScores(data))

\* comparison of fractions with positive denominators
RatLeq(a, b) == a[1] * b[2] <= b[1] * a[2]
RatEq(a, b) == a[1] * b[2] = b[1] * a[2]


-----------------------------------------------------------------------------
(* run_optimized_data_collection *)

TargetRows == 1000      \* the row target of the program
MaxFailures == 50       \* max_failures of the program

\* configurations given to Dataset(...)
Fixtures ==
    {[countries |-> <<"Brazil">>, nregions |-> 1],
     [countries |-> <<"Mexico">>, nregions |-> 2],
     [countries |-> <<"Thailand">>, nregions |-> 1],
     [countries |-> <<"Brazil", "Mexico">>, nregions |-> 1]}

\* what the collaborators can answer
\* the four aggregates answered by the n-th weather call: every call answers
\* values of its own, so that a row shows which call its aggregates came from
WeatherResponse(n) == <<n, 10 + n, 20 + n, 30 + n>>
TrendPayloads == {<<[location |-> "A", extracted_value |-> 60]>>}

country == countries_details[ci]
city == Regions(country)[ri]
seasons_to_process == [i \in 1..Len(Calendar(country)) |-> Calendar(country)[i][1]]
season == seasons_to_process[si]
activity == activities[ai]
duration == Duration(country, season)
\* seasonal_range.get(season, {}) is never empty for a season of the calendar
season_dates == DictGet(get_seasonal_ranges(Calendar(country)), season, <<>>)

\* the ceiling test with > in place of >=
CeilingReached_Strict(failed, ceiling) == failed > ceiling

\* the target test with > in place of >=
TargetReached_Strict(rows, goal) == Len(rows) > goal

CeilingReached(failed, ceiling) == failed >= ceiling
TargetReached(rows, goal) == Len(rows) >= goal

\* data_point with the default duration in place of the configured one
data_point_DefaultDuration(score) ==
    [country |-> country, city |-> city, activity |-> activity, season |-> season,
     trend_score |-> score,
     avg_daily_precipitation |-> weather_data[1],
     avg_daily_temperature |-> weather_data[2],
     avg_daily_daylight |-> weather_data[3],
     avg_daily_wind_speed |-> weather_data[4],
     season_duration |-> 90]

data_point(score) ==
    [country |-> country, city |-> city, activity |-> activity, season |-> season,
     trend_score |-> score,
     avg_daily_precipitation |-> weather_data[1],
     avg_daily_temperature |-> weather_data[2],
     avg_daily_daylight |-> weather_data[3],
     avg_daily_wind_speed |-> weather_data[4],
     season_duration |-> duration]

Return(reason) ==
    /\ pc' = "done"
    /\ stopReason' = reason
    /\ UNCHANGED <<ci, ri, si, ai>>

\* the next iteration of "for city in cities", or of "for country in ..."
NextRegion ==
    IF ri < Len(Regions(country))
    THEN /\ pc' = "region" /\ ri' = ri + 1 /\ UNCHANGED <<ci, si, ai, stopReason>>
    ELSE IF ci < Len(countries_details)
    THEN /\ pc' = "region" /\ ci' = ci + 1 /\ ri' = 1 /\ UNCHANGED <<si, ai, stopReason>>
    ELSE Return("exhausted")

\* the except clause leaving the loops instead of going on with the next region
RegionFailed_NoContinue ==
    /\ failed_attempts' = failed_attempts + 1
    /\ Return(IF CeilingReached(failed_attempts + 1, max_failures)
              THEN "ceiling" ELSE "exhausted")

\* the except clause of the region's try block
RegionFailed ==
    /\ failed_attempts' = failed_attempts + 1
    /\ IF CeilingReached(failed_attempts + 1, max_failures)
       THEN Return("ceiling")
       ELSE NextRegion

\* the end of one iteration of "for activity in activities"
NextActivity(rows) ==
    IF ai < Len(activities)
    THEN /\ pc' = "activity" /\ ai' = ai + 1 /\ UNCHANGED <<ci, ri, si, stopReason>>
    ELSE IF TargetReached(rows, target)
    THEN Return("target")
    ELSE IF si < Len(seasons_to_process)
    THEN /\ pc' = "season" /\ si' = si + 1 /\ UNCHANGED <<ci, ri, ai, stopReason>>
    ELSE NextRegion

GeocodeOk ==
    /\ pc = "region"
    /\ geoLog' = Append(geoLog, [country |-> country, city |-> city, ok |-> TRUE])
    /\ pc' = "season" /\ si' = 1
    /\ UNCHANGED <<ci, ri, ai, stopReason, failed_attempts, all_data, weather_data,
                   weatherLog, trendsLog>>

GeocodeFail ==
    /\ pc = "region"
    /\ geoLog' = Append(geoLog, [country |-> country, city |-> city, ok |-> FALSE])
    /\ RegionFailed
    /\ UNCHANGED <<all_data, weather_data, weatherLog, trendsLog>>

WeatherCall(ok) ==
    [country |-> country, city |-> city, season |-> season,
     start_date |-> season_dates.start, end_date |-> season_dates.end,
     duration |-> duration, ok |-> ok]

\* the weather fetch keeping the aggregates of the region's first season
WeatherOk_KeepsFirstSeason ==
    /\ pc = "season"
    /\ weather_data' = IF si = 1 THEN WeatherResponse(Len(weatherLog) + 1)
                              ELSE weather_data
    /\ weatherLog' = Append(weatherLog, WeatherCall(TRUE))
    /\ pc' = "activity" /\ ai' = 1
    /\ UNCHANGED <<ci, ri, si, stopReason, failed_attempts, all_data, geoLog, trendsLog>>

WeatherOk ==
    /\ pc = "season"
    /\ weather_data' = WeatherResponse(Len(weatherLog) + 1)
    /\ weatherLog' = Append(weatherLog, WeatherCall(TRUE))
    /\ pc' = "activity" /\ ai' = 1
    /\ UNCHANGED <<ci, ri, si, stopReason, failed_attempts, all_data, geoLog, trendsLog>>

\* a weather failure caught inside the season loop: the next season is tried
WeatherFail_SkipsSeasonOnly ==
    /\ pc = "season"
    /\ weatherLog' = Append(weatherLog, WeatherCall(FALSE))
    /\ failed_attempts' = failed_attempts + 1
    /\ IF CeilingReached(failed_attempts + 1, max_failures)
       THEN Return("ceiling")
       ELSE IF si < Len(seasons_to_process)
       THEN /\ pc' = "season" /\ si' = si + 1 /\ UNCHANGED <<ci, ri, ai, stopReason>>
       ELSE NextRegion
    /\ UNCHANGED <<all_data, weather_data, geoLog, trendsLog>>

WeatherFail ==
    /\ pc = "season"
    /\ weatherLog' = Append(weatherLog, WeatherCall(FALSE))
    /\ RegionFailed
    /\ UNCHANGED <<all_data, weather_data, geoLog, trendsLog>>

StopCeiling ==
    /\ pc = "activity"
    /\ CeilingReached(failed_attempts, max_failures)
    /\ Return("ceiling")
    /\ UNCHANGED <<failed_attempts, all_data, weather_data, geoLog, weatherLog, trendsLog>>

TrendsCall(ok) ==
    [country |-> country, city |-> city, season |-> season, activity |-> activity,
     geo |-> DictGet(Geo, country, ""), date |-> TrendsDateParam(season_dates),
     ok |-> ok]

TrendsOk ==
    /\ pc = "activity"
    /\ ~CeilingReached(failed_attempts, max_failures)
    /\ trendsLog' = Append(trendsLog, TrendsCall(TRUE))
    /\ \E payload \in TrendPayloads :
          all_data' = Append(all_data, data_point(process_regional_trend(payload)))
    /\ NextActivity(all_data')
    /\ UNCHANGED <<failed_attempts, weather_data, geoLog, weatherLog>>

TrendsFail ==
    /\ pc = "activity"
    /\ ~CeilingReached(failed_attempts, max_failures)
    /\ trendsLog' = Append(trendsLog, TrendsCall(FALSE))
    /\ failed_attempts' = failed_attempts + 1
    /\ NextActivity(all_data)
    /\ UNCHANGED <<all_data, weather_data, geoLog, weatherLog>>

FnIdle ==
    /\ fpc = "idle"
    /\ country_seasons = <<>>
    /\ seasonal_ranges = <<>>
    /\ interest_data = <<>>
    /\ trend_score = Baseline

Init ==
    /\ \E f \in Fixtures : countries_details = f.countries /\ nregions = f.nregions
    /\ \/ max_failures \in 1..MaxCeiling /\ target \in (1..MaxTarget) \cup {TargetRows}
       \/ max_failures = MaxFailures /\ target \in (1..MaxTarget) \cup {TargetRows}
    /\ pc = "region"
    /\ ci = 1 /\ ri = 1 /\ si = 1 /\ ai = 1
    /\ failed_attempts = 0
    /\ all_data = <<>>
    /\ weather_data = <<0, 0, 0, 0>>
    /\ geoLog = <<>> /\ weatherLog = <<>> /\ trendsLog = <<>>
    /\ stopReason = "running"
    /\ FnIdle

Next ==
    \/ GeocodeOk /\ UNCHANGED <<countries_details, nregions, max_failures, target, fnVars>>
    \/ GeocodeFail /\ UNCHANGED <<countries_details, nregions, max_failures, target, fnVars>>
    \/ WeatherOk /\ UNCHANGED <<countries_details, nregions, max_failures, target, fnVars>>
    \/ WeatherFail /\ UNCHANGED <<countries_details, nregions, max_failures, target, fnVars>>
    \/ StopCeiling /\ UNCHANGED <<countries_details, nregions, max_failures, target, fnVars>>
    \/ TrendsOk /\ UNCHANGED <<countries_details, nregions, max_failures, target, fnVars>>
    \/ TrendsFail /\ UNCHANGED <<countries_details, nregions, max_failures, target, fnVars>>

Spec == Init /\ [][Next]_vars

-----------------------------------------------------------------------------
(* get_seasonal_ranges applied to calendars *)

LoopIdle ==
    /\ countries_details = <<>> /\ nregions = 0
    /\ max_failures = MaxFailures /\ target = TargetRows
    /\ pc = "idle"
    /\ ci = 1 /\ ri = 1 /\ si = 1 /\ ai = 1
    /\ failed_attempts = 0
    /\ all_data = <<>>
    /\ weather_data = <<0, 0, 0, 0>>
    /\ geoLog = <<>> /\ weatherLog = <<>> /\ trendsLog = <<>>
    /\ stopReason = "running"

SeasonNames == <<"spring", "summer", "fall", "winter", "dry", "hot", "wet">>

\* the start dates that occur in Country_details
StartDates ==
    UNION {{Country_details[i][2][j][2] : j \in DOMAIN Country_details[i][2]} :
                i \in DOMAIN Country_details}

\* the configured calendars, and every calendar of 1..MaxSeasons named seasons
Calendars ==
    {Country_details[i][2] : i \in DOMAIN Country_details}
    \cup UNION {{[i \in 1..n |-> <<SeasonNames[i], d[i]>>] : d \in [1..n -> StartDates]} :
                    n \in 1..MaxSeasons}

InitRanges ==
    /\ LoopIdle
    /\ fpc = "input"
    /\ country_seasons \in Calendars
    /\ seasonal_ranges = <<>>
    /\ interest_data = <<>>
    /\ trend_score = Baseline

GetSeasonalRanges ==
    /\ fpc = "input"
    /\ seasonal_ranges' = get_seasonal_ranges(country_seasons)
    /\ fpc' = "done"
    /\ UNCHANGED <<country_seasons, interest_data, trend_score, loopVars>>

NextRanges == GetSeasonalRanges

SpecRanges == InitRanges /\ [][NextRanges]_vars

-----------------------------------------------------------------------------
(* process_regional_trend applied to interest_by_region lists *)

RawScores == {-20, 0, 5, 60, 100, 180}

\* an entry of interest_by_region; the extracted_value key may be missing
Entries ==
    {[location |-> "A"]} \cup {[location |-> "A", extracted_value |-> v] : v \in RawScores}

InterestLists == UNION {[1..n -> Entries] : n \in 0..MaxEntries}

InitTrend ==
    /\ LoopIdle
    /\ fpc = "input"
    /\ interest_data \in InterestLists
    /\ trend_score = <<0, 1>>
    /\ country_seasons = <<>>
    /\ seasonal_ranges = <<>>

ProcessRegionalTrend ==
    /\ fpc = "input"
    /\ trend_score' = process_regional_trend(interest_data)
    /\ fpc' = "done"
    /\ UNCHANGED <<interest_data, country_seasons, seasonal_ranges, loopVars>>

NextTrend == ProcessRegionalTrend

SpecTrend == InitTrend /\ [][NextTrend]_vars

-----------------------------------------------------------------------------
(* Properties of get_seasonal_ranges *)

Configured(calendar) == \E i \in DOMAIN Country_details : Country_details[i][2] = calendar

RangeOf(ranges, i) == ranges[i][2]

\* C2: for every configured country with N >= 2 seasons, get_seasonal_ranges
\* gives exactly N ranges, each ending strictly after it starts, each ending
\* where the next one starts, the last one ending one year after the first
\* one starts (the ranges partition one year).
C2_RangesPartitionOneYear ==
    (fpc = "done" /\ Configured(country_seasons) /\ Len(country_seasons) >= 2) =>
        LET N == Len(country_seasons) IN
        /\ Len(seasonal_ranges) = N
        /\ \A i \in 1..N :
              Before(RangeOf(seasonal_ranges, i).start, RangeOf(seasonal_ranges, i).end)
        /\ \A i \in 1..(N - 1) :
              RangeOf(seasonal_ranges, i).end = RangeOf(seasonal_ranges, i + 1).start
        /\ YearsLater(RangeOf(seasonal_ranges, 1).start,
                      RangeOf(seasonal_ranges, N).end, 1)

SingleSeasonDone ==
    pc = "idle" /\ fpc # "input" /\ Len(country_seasons) = 1

\* C10 as stated: get_seasonal_ranges applied to a calendar with a single
\* season fails with an error and never returns a mapping.
C10_SingleSeasonRaises == SingleSeasonDone => fpc = "raised"

\* C10 amended: get_seasonal_ranges applied to a calendar with a single season
\* does not fail; it returns a mapping with one range, from the season's start
\* date to the same date one year later.
C10_SingleSeasonSpansOneYear ==
    SingleSeasonDone =>
        /\ fpc = "done"
        /\ Len(seasonal_ranges) = 1
        /\ seasonal_ranges[1][1] = country_seasons[1][1]
        /\ RangeOf(seasonal_ranges, 1).start = country_seasons[1][2]
        /\ YearsLater(country_seasons[1][2], RangeOf(seasonal_ranges, 1).end, 1)

C10_Witness ==
    /\ SingleSeasonDone
    /\ fpc = "done"
    /\ RangeOf(seasonal_ranges, 1) = [start |-> Date(2024, 5, 1), end |-> Date(2025, 5, 1)]

-----------------------------------------------------------------------------
(* Properties of process_regional_trend *)

HasPositive(data) == \E i \in DOMAIN data : ExtractedValue(data[i]) > 0

Reordered(data, p) == [i \in DOMAIN data |-> data[p[i]]]

OrderInvariant ==
    \A p \in Permutations(DOMAIN interest_data) :
        RatEq(process_regional_trend(Reordered(interest_data, p)), trend_score)

TrendDone == pc = "idle" /\ fpc = "done" /\ country_seasons = <<>>

\* C3 as stated: the result is in [0.1, 1.0] when some raw score is positive,
\* is exactly 0.1 for an empty or all-non-positive list, and does not depend
\* on the order of the entries.
C3_ScoreAtLeastBaseline ==
    TrendDone =>
        /\ HasPositive(interest_data) =>
              RatLeq(Baseline, trend_score) /\ RatLeq(trend_score, <<1, 1>>)
        /\ ~HasPositive(interest_data) => RatEq(trend_score, Baseline)
        /\ OrderInvariant

\* C3 amended: the result is in (0, 1.0] when some raw score is positive (it
\* is below 0.1 when the positive scores average less than 10), is exactly 0.1
\* for an empty or all-non-positive list, and does not depend on the order of
\* the entries.
C3_ScoreInUnitInterval ==
    TrendDone =>
        /\ HasPositive(interest_data) =>
              /\ ~RatLeq(trend_score, <<0, 1>>)
              /\ RatLeq(trend_score, <<1, 1>>)
              /\ trend_score[2] > 0
        /\ ~HasPositive(interest_data) => RatEq(trend_score, Baseline)
        /\ OrderInvariant

\* positive scores 5 and 60 around a non-positive one: mean 32.5, score 0.325;
\* reordering the three entries has to give the same score
C3_Witness ==
    /\ TrendDone
    /\ Len(interest_data) = 3
    /\ ExtractedValue(interest_data[1]) = 5
    /\ ExtractedValue(interest_data[2]) = -20
    /\ ExtractedValue(interest_data[3]) = 60
    /\ trend_score = <<65, 200>>

-----------------------------------------------------------------------------
(* Properties of the collection loop: vocabulary *)

IsOk(call) == call.ok
IsFailed(call) == ~call.ok

AllOk(log) == \A i \in DOMAIN log : log[i].ok
AllFailed(log) == \A i \in DOMAIN log : ~log[i].ok

\* how many collaborator calls have failed so far
FailedCalls ==
    Len(SelectSeq(geoLog, IsFailed)) + Len(SelectSeq(weatherLog, IsFailed))
    + Len(SelectSeq(trendsLog, IsFailed))

PosIn(seq, x) == CHOOSE i \in DOMAIN seq : seq[i] = x

SeasonsOf(c) == [i \in 1..Len(Calendar(c)) |-> Calendar(c)[i][1]]

\* position of a (region, season, activity) triple in configuration order
Rank(r) ==
    <<PosIn(countries_details, r.country), PosIn(Regions(r.country), r.city),
      PosIn(SeasonsOf(r.country), r.season), PosIn(activities, r.activity)>>

LexLess(a, b) ==
    \E k \in 1..4 : a[k] < b[k] /\ \A j \in 1..(k - 1) : a[j] = b[j]

Triple(r) == <<r.country, r.city, r.season, r.activity>>

RECURSIVE TriplesIn(_)
TriplesIn(cs) ==
    IF cs = <<>> THEN 0
    ELSE Len(Regions(Head(cs))) * Len(Calendar(Head(cs))) * Len(activities)
         + TriplesIn(Tail(cs))

TotalTriples == TriplesIn(countries_details)

RECURSIVE RegionsIn(_)
RegionsIn(cs) ==
    IF cs = <<>> THEN 0 ELSE Len(Regions(Head(cs))) + RegionsIn(Tail(cs))

TotalRegions == RegionsIn(countries_details)

-----------------------------------------------------------------------------
(* Properties of the collection loop *)

\* C1: the failure counter never exceeds the failure ceiling, at any point up
\* to and including the return of the loop.
C1_CounterWithinCeiling == failed_attempts <= max_failures

\* C4: the table holds exactly one row per (region, season, activity) triple
\* whose trends fetch returned a score, in depth-first configuration order,
\* without duplicates and without a row for a failed triple; each row carries
\* the configured duration of its country and season; when every collaborator
\* succeeds and the cursors are exhausted the row count is the sum over the
\* countries of regions x seasons x activities.
C4_RowsAreSuccessfulTriples ==
    LET ok == SelectSeq(trendsLog, IsOk) IN
    /\ Len(all_data) = Len(ok)
    /\ \A i \in DOMAIN all_data :
          /\ Triple(all_data[i]) = Triple(ok[i])
          /\ all_data[i].season_duration
                = Duration(all_data[i].country, all_data[i].season)
    /\ \A i \in 1..(Len(all_data) - 1) :
          LexLess(Rank(all_data[i]), Rank(all_data[i + 1]))
    /\ \A i \in DOMAIN trendsLog :
          ~trendsLog[i].ok =>
              \A j \in DOMAIN all_data : Triple(all_data[j]) # Triple(trendsLog[i])
    /\ (pc = "done" /\ stopReason = "exhausted"
        /\ AllOk(geoLog) /\ AllOk(weatherLog) /\ AllOk(trendsLog))
          => Len(all_data) = TotalTriples

\* one country with one region, two seasons and three activities: 2x1x3 = 6 rows
C4_Witness ==
    /\ pc = "done" /\ stopReason = "exhausted"
    /\ countries_details = <<"Brazil">> /\ nregions = 1
    /\ AllOk(geoLog) /\ AllOk(weatherLog) /\ AllOk(trendsLog)
    /\ Len(all_data) = 6
    /\ all_data[1].season_duration = 153 /\ all_data[6].season_duration = 212

\* C5 as stated: the target is checked after each append; once the row count
\* is >= the target the loop has returned, and the returned table never has
\* more rows than the target.
C5_StopsAtTarget ==
    pc # "idle" =>
        /\ Len(all_data) >= target => pc = "done"
        /\ Len(all_data) <= target

\* C5 amended: the target is checked once per (region, season), after all the
\* activities of that season have been tried: if the row count is then >= the
\* target the loop returns, so no later season or region is started; the table
\* exceeds the target by fewer rows than there are activities.
C5_StopsAtSeasonEnd ==
    pc # "idle" =>
        /\ pc \in {"region", "season"} => Len(all_data) < target
        /\ (pc = "activity" /\ ai = 1) => Len(all_data) < target
        /\ Len(all_data) < target + Len(activities)
        /\ stopReason = "target" =>
              /\ Len(all_data) >= target
              /\ trendsLog[Len(trendsLog)].activity = activities[Len(activities)]

C5_Witness ==
    /\ pc = "done" /\ stopReason = "target"
    /\ target = 2 /\ Len(all_data) = 3

\* C6: with geocoder and weather always succeeding and every trends fetch
\* returning null, a run with ceiling K that has at least K triples to try
\* makes exactly K trends calls and returns 0 rows; when K is smaller than the
\* number of activities the second season is never reached (one weather
\* fetch, every trends call in the first season).
C6_AllTrendsFail ==
    (pc = "done" /\ AllOk(geoLog) /\ AllOk(weatherLog) /\ AllFailed(trendsLog)
     /\ max_failures <= TotalTriples) =>
        /\ Len(trendsLog) = max_failures
        /\ all_data = <<>>
        /\ max_failures < Len(activities) =>
              /\ Len(weatherLog) = 1
              /\ stopReason = "ceiling"
              /\ \A i \in DOMAIN trendsLog :
                    trendsLog[i].season = SeasonsOf(trendsLog[i].country)[1]

C6_Witness ==
    /\ pc = "done" /\ AllOk(geoLog) /\ AllOk(weatherLog) /\ AllFailed(trendsLog)
    /\ max_failures = 2 /\ Len(activities) = 3
    /\ Len(trendsLog) = 2 /\ Len(weatherLog) = 1 /\ all_data = <<>>

SameRegion(a, b) == a.country = b.country /\ a.city = b.city

\* a step in which the geocoder fails for the current region
GeocoderFails ==
    /\ pc = "region"
    /\ Len(geoLog') = Len(geoLog) + 1
    /\ ~geoLog'[Len(geoLog')].ok

C7_Step ==
    GeocoderFails =>
        /\ failed_attempts' = failed_attempts + 1
        /\ weatherLog' = weatherLog /\ trendsLog' = trendsLog /\ all_data' = all_data
        /\ IF failed_attempts' >= max_failures
           THEN pc' = "done" /\ stopReason' = "ceiling"
           ELSE IF Len(geoLog') < TotalRegions
           THEN /\ pc' = "region"
                /\ <<ci', ri'>> = IF ri < Len(Regions(countries_details[ci]))
                                  THEN <<ci, ri + 1>> ELSE <<ci + 1, 1>>
           ELSE pc' = "done" /\ stopReason' = "exhausted"

C7_State ==
    /\ \A i \in DOMAIN geoLog :
          ~geoLog[i].ok =>
              /\ \A j \in DOMAIN weatherLog : ~SameRegion(weatherLog[j], geoLog[i])
              /\ \A j \in DOMAIN trendsLog : ~SameRegion(trendsLog[j], geoLog[i])
              /\ \A j \in DOMAIN all_data : ~SameRegion(all_data[j], geoLog[i])
    /\ (pc = "done" /\ TotalRegions = 1 /\ ~geoLog[1].ok) =>
          all_data = <<>> /\ failed_attempts = 1

\* C7: when the geocoder fails for a region the failure counter goes up by
\* exactly one, no weather or trends call is made and no row is appended for
\* that region, and the loop goes on with the next region unless the ceiling
\* is reached; a single region whose geocoding fails gives 0 rows and a
\* failure counter of 1.
C7_GeocoderFailureSkipsRegion == [](C7_State) /\ [][C7_Step]_vars

C7_Witness ==
    /\ pc = "done" /\ Len(geoLog) = 2
    /\ ~geoLog[1].ok /\ geoLog[2].ok
    /\ failed_attempts = 1 /\ Len(all_data) = 6

SameSeason(a, b) == SameRegion(a, b) /\ a.season = b.season

\* C8: the date range sent to the trends collaborator is the range used for
\* the weather query of the same season with both its start and its end moved
\* back by exactly one year.
C8_TrendsRangeIsPreviousYear ==
    \A i \in DOMAIN trendsLog : \A j \in DOMAIN weatherLog :
        SameSeason(trendsLog[i], weatherLog[j]) =>
            /\ YearsLater(ParamStart(trendsLog[i].date), weatherLog[j].start_date, 1)
            /\ YearsLater(ParamEnd(trendsLog[i].date), weatherLog[j].end_date, 1)

LaterSeason(c, s, t) == PosIn(SeasonsOf(c), s) < PosIn(SeasonsOf(c), t)

\* C9 as stated: a weather failure costs exactly one failure-counter increment
\* and skips that season only: the remaining seasons of the same region are
\* still processed unless the ceiling has been reached.
C9_WeatherFailureSkipsSeason ==
    /\ failed_attempts = FailedCalls
    /\ (pc = "done" /\ stopReason = "exhausted" /\ failed_attempts < max_failures) =>
          \A i \in DOMAIN weatherLog :
              ~weatherLog[i].ok =>
                  \A k \in DOMAIN SeasonsOf(weatherLog[i].country) :
                      LaterSeason(weatherLog[i].country, weatherLog[i].season,
                                  SeasonsOf(weatherLog[i].country)[k])
                      => \E j \in DOMAIN weatherLog :
                            /\ SameRegion(weatherLog[j], weatherLog[i])
                            /\ weatherLog[j].season = SeasonsOf(weatherLog[i].country)[k]

\* C9 amended: a weather failure is caught by the region's try block: it costs
\* exactly one failure-counter increment and skips the rest of the region (no
\* trends call for that season, no weather or trends call for the remaining
\* seasons of the region); the loop goes on with the next region unless the
\* ceiling has been reached.
C9_WeatherFailureSkipsRegion ==
    /\ failed_attempts = FailedCalls
    /\ \A i \in DOMAIN weatherLog :
          ~weatherLog[i].ok =>
              /\ \A j \in DOMAIN weatherLog :
                    SameRegion(weatherLog[j], weatherLog[i]) => j <= i
              /\ \A j \in DOMAIN trendsLog :
                    SameRegion(trendsLog[j], weatherLog[i]) =>
                        LaterSeason(trendsLog[j].country, trendsLog[j].season,
                                    weatherLog[i].season)
              /\ pc \in {"region", "season", "activity"} =>
                    ~SameRegion([country |-> countries_details[ci],
                                    city |-> Regions(countries_details[ci])[ri]],
                                   weatherLog[i])
    /\ (pc = "done" /\ stopReason = "exhausted") => Len(geoLog) = TotalRegions
    /\ stopReason = "ceiling" => failed_attempts >= max_failures

C9_Witness ==
    /\ pc = "done" /\ stopReason = "exhausted"
    /\ Len(weatherLog) = 3
    /\ ~weatherLog[1].ok /\ weatherLog[2].ok /\ weatherLog[3].ok
    /\ ~SameRegion(weatherLog[1], weatherLog[2])
    /\ Len(geoLog) = 2 /\ failed_attempts = 1

\* the four weather columns of a row
Aggregates(row) ==
    <<row.avg_daily_precipitation, row.avg_daily_temperature,
      row.avg_daily_daylight, row.avg_daily_wind_speed>>

\* C11: the weather collaborator is called at most once per (region, season)
\* pair; a trends call for a pair is made only once the weather call for that
\* pair has been made (and has answered); every row appended for the pair
\* carries the four aggregates that this one call answered (the j-th weather
\* call answers WeatherResponse(j)).
C11_WeatherOncePerSeason ==
    /\ \A i \in DOMAIN weatherLog : \A j \in DOMAIN weatherLog :
          SameSeason(weatherLog[i], weatherLog[j]) => i = j
    /\ \A i \in DOMAIN trendsLog :
          \E j \in DOMAIN weatherLog :
              SameSeason(weatherLog[j], trendsLog[i]) /\ weatherLog[j].ok
    /\ \A i \in DOMAIN all_data :
          \E j \in DOMAIN weatherLog :
              /\ SameSeason(weatherLog[j], all_data[i])
              /\ weatherLog[j].ok
              /\ Aggregates(all_data[i]) = WeatherResponse(j)

\* two regions of two seasons: four weather calls, twelve rows, the rows of the
\* last season carrying the aggregates of the fourth call
C11_Witness ==
    /\ pc = "done"
    /\ Len(weatherLog) = 4 /\ AllOk(weatherLog)
    /\ Len(all_data) = 12
    /\ Aggregates(all_data[3]) = WeatherResponse(1)
    /\ Aggregates(all_data[4]) = WeatherResponse(2)
    /\ Aggregates(all_data[12]) = WeatherResponse(4)

=============================================================================
